---- MODULE Spec2Model ----
(***************************************************************************)
(* Model of tenosh/line-editor: the client-side line editor                *)
(* (src/app/components/RouteVisualizer.tsx) and the server-side save       *)
(* endpoints (src/app/api/upload-image/route.ts,                           *)
(* src/app/api/optimize-route-line/route.ts and src/unnamed/part_001).     *)
(*                                                                         *)
(* A React handler runs to completion and its setState calls are batched,  *)
(* so one handler is one action reading the state of the last render.      *)
(* The handlers are modelled as the functions they are: each keeps its own *)
(* guard from the code and can be invoked in any state.  Whether the       *)
(* control that triggers a handler is rendered and enabled is a separate   *)
(* predicate (StageRendered, ToggleEnabled, ...); the history variable     *)
(* viaUI stays TRUE as long as every handler so far was invoked through an *)
(* enabled control.                                                        *)
(***************************************************************************)
EXTENDS Integers, Sequences, FiniteSets, TLC

\* ------------------------------------------------------------------ bounds
MaxPoints == 3
MaxPendingLoads == 1
MaxSaves == 2
MaxRequests == 2
MaxClock == 2
MaxDim == 14

\* ------------------------------------------------------- client: the props
\* null of the source
Null == "null"

\* the routes prop: r1 has a base image and a saved line image, r2 has a
\* base image only, r3 has neither
Routes == {"r1", "r2", "r3"}

RouteImage(r) == IF r \in {"r1", "r2"} THEN r ELSE Null

\* a URL is the tuple of the pieces its template string joins, the host left
\* out; no URL (null, undefined) is the empty tuple
NoUrl == <<>>

\* supabase.storage.from("cactux").getPublicUrl(filePath): the public
\* prefix of the bucket followed by the path
PublicUrl(filePath) == <<"public/cactux/">> \o filePath

\* `${folderName}/${routeId}.webp` (upload-image lines 98-99, part_001 lines 52-53)
FilePath(folderName, routeId) == <<folderName, "/", routeId, ".webp">>

\* `routes_lines/${routeId}_${timestamp}.webp` (optimize-route-line lines 47-49)
TimestampedPath(routeId, timestamp) ==
  <<"routes_lines", "/", routeId, "_", ToString(timestamp), ".webp">>

RouteImageLine(r) == IF r = "r1" THEN PublicUrl(FilePath("routes_lines", "r1")) ELSE NoUrl

\* `${url}?t=${new Date().getTime()}`: the URL with a timestamp query
CacheBusted(u) == u \o <<"?t=">>

\* the values new Date().getTime() takes
Timestamps == {1}

\* the number of points in a flattened x,y,x,y,... array
NumPoints(pts) == Len(pts) \div 2

\* the pointer positions a click can report, as <<x, y>>
PointerPositions == {<<100, 100>>, <<300, 100>>}

\* ---------------------------------------------------------------- state
VARIABLES
  tableType,          \* prop
  selectedRoute,      \* useState: id of the selected route, or Null
  image,              \* useState: the loaded base image (named by its route), or Null
  lineSavedImage,     \* useState: URL of the saved line image, or NoUrl
  lines,              \* useState: number[][], the visible committed path(s)
  drawingMode,        \* useState
  points,             \* useState: number[], flattened x,y,x,y,...
  isLoading,          \* useState
  imageLoading,       \* useState
  noImageAvailable,   \* useState
  isSaving,           \* useState
  lineFinished,       \* useState
  toast,              \* useState: toast.type
  pendingImg,         \* window.Image objects of loadRoute whose onload/onerror has not fired
  saves,              \* saveLine invocations in flight
  lastOp,             \* history: the last handler and the number of coordinates it found
  committed,          \* history: the points committed by the last accepted finishLine, <<>> once finished is reset
  viaUI,              \* history: every handler so far was reachable through the UI
  req,                \* server: the requests being handled, by slot
  blobs,              \* blob store: the set of [path, content] of the bucket
  records,            \* record store: table -> id -> [image, image_line]
  tmpDirs,            \* server file system: the temporary directories that exist
  tmpFiles,           \* server file system: the temporary directories that hold their file
  now,                \* server clock, new Date().getTime()
  served              \* history: the number of requests received so far

editorVars == <<selectedRoute, image, lineSavedImage, lines, drawingMode, points,
                isLoading, imageLoading, noImageAvailable, lineFinished>>
saveVars == <<isSaving, toast, saves>>
histVars == <<lastOp, committed, viaUI>>
clientVars == <<tableType, editorVars, pendingImg, saveVars, histVars>>

\* the state of the component, without the history variables
programVars == <<tableType, editorVars, pendingImg, saveVars>>

serverVars == <<req, blobs, records, tmpDirs, tmpFiles, now, served>>

vars == <<clientVars, serverVars>>

\* ------------------------------------------------------- rendered controls
\* line 381/407: the Stage (and with it stageRef.current) exists
StageRendered == ~(isLoading \/ imageLoading) /\ image # Null

\* line 313-321
ToggleEnabled == image # Null /\ ~(isLoading \/ isSaving)

\* line 322-330
UndoEnabled == image # Null /\ drawingMode /\ ~(Len(points) < 2 \/ isLoading \/ isSaving)

\* line 331-337
FinishEnabled == image # Null /\ drawingMode /\ ~(Len(points) < 4 \/ isLoading \/ isSaving)

\* mutant: the save button is not disabled while a save is in flight
SaveEnabled_IgnoresSaving ==
  image # Null /\ lineFinished /\ ~(selectedRoute = Null \/ isLoading)

\* line 340-344
SaveEnabled == image # Null /\ lineFinished /\ ~(selectedRoute = Null \/ isLoading \/ isSaving)

\* history: a handler that reads points records how many coordinates it
\* found, handleMouseDown also the position of the click
Op(name) == [op |-> name, n |-> Len(points), arg |-> <<>>]
Click(pos) == [op |-> "handleMouseDown", n |-> Len(points), arg |-> pos]
Ev(name) == [op |-> name, n |-> 0, arg |-> <<>>]

\* ------------------------------------------------------------ the handlers
\* useEffect on [selectedRoute] (lines 48-99): the body of loadRoute
loadRoute(r) ==
  /\ isLoading' = FALSE
  /\ noImageAvailable' = (RouteImage(r) = Null)
  /\ drawingMode' = FALSE
  /\ points' = <<>>
  /\ lines' = <<>>
  /\ lineFinished' = FALSE
  /\ image' = Null
  /\ imageLoading' = IF RouteImage(r) # Null THEN TRUE ELSE imageLoading
  /\ pendingImg' = IF RouteImage(r) # Null
                     THEN [pendingImg EXCEPT ![r] = @ + 1]
                     ELSE pendingImg
  /\ lineSavedImage' = IF RouteImageLine(r) # NoUrl
                         THEN CacheBusted(RouteImageLine(r))
                         ELSE NoUrl

\* the effect does nothing when the selection becomes null (line 49)
EffectRuns(r) == r # Null

\* handleRouteSelect (lines 101-105) followed by the effect of lines 48-99
handleRouteSelect(r) ==
  /\ r # selectedRoute
  /\ r # Null => pendingImg[r] < MaxPendingLoads
  /\ selectedRoute' = r
  /\ IF EffectRuns(r)
       THEN loadRoute(r)
       ELSE UNCHANGED <<image, lineSavedImage, lines, drawingMode, points, isLoading,
                        imageLoading, noImageAvailable, lineFinished, pendingImg>>
  /\ committed' = IF EffectRuns(r) THEN <<>> ELSE committed
  /\ lastOp' = Ev("handleRouteSelect")
  /\ UNCHANGED <<serverVars, tableType, saveVars, viaUI>>

\* img.onload of loadRoute (lines 72-75)
imgOnload(r) ==
  /\ pendingImg[r] > 0
  /\ pendingImg' = [pendingImg EXCEPT ![r] = @ - 1]
  /\ image' = RouteImage(r)
  /\ imageLoading' = FALSE
  /\ lastOp' = Ev("imgOnload")
  /\ UNCHANGED <<serverVars, tableType, selectedRoute, lineSavedImage, lines, drawingMode, points,
                 isLoading, noImageAvailable, lineFinished, saveVars, committed, viaUI>>

\* img.onerror of loadRoute (lines 76-80)
imgOnerror(r) ==
  /\ pendingImg[r] > 0
  /\ pendingImg' = [pendingImg EXCEPT ![r] = @ - 1]
  /\ imageLoading' = FALSE
  /\ noImageAvailable' = TRUE
  /\ lastOp' = Ev("imgOnerror")
  /\ UNCHANGED <<serverVars, tableType, selectedRoute, image, lineSavedImage, lines, drawingMode, points,
                 isLoading, lineFinished, saveVars, committed, viaUI>>

\* line 108: the guard of handleMouseDown
AddPointAccepted == ~(~drawingMode \/ image = Null)

\* mutant: the new point is put in front
AppendPoint_Prepend(pts, pos) == <<pos[1], pos[2]>> \o pts

\* line 113: [...points, pos.x, pos.y]
AppendPoint(pts, pos) == pts \o <<pos[1], pos[2]>>

\* handleMouseDown (lines 107-119), the addPoint of the specification
handleMouseDown(pos) ==
  /\ Len(points) < 2 * MaxPoints
  /\ IF AddPointAccepted
       THEN /\ points' = AppendPoint(points, pos)
            /\ lines' = IF Len(points) >= 2 THEN <<points>> ELSE lines
       ELSE UNCHANGED <<points, lines>>
  /\ lastOp' = Click(pos)
  /\ viaUI' = (viaUI /\ StageRendered)
  /\ UNCHANGED <<serverVars, tableType, selectedRoute, image, lineSavedImage, drawingMode, isLoading,
                 imageLoading, noImageAvailable, lineFinished, pendingImg, saveVars, committed>>

\* mutant: enterDrawing also resets the finished path
toggleDrawingMode_ResetsOnEnter ==
  /\ drawingMode' = ~drawingMode
  /\ points' = <<>>
  /\ lines' = <<>>
  /\ lineFinished' = FALSE
  /\ committed' = <<>>
  /\ lastOp' = Op("toggleDrawingMode")
  /\ viaUI' = (viaUI /\ ToggleEnabled)
  /\ UNCHANGED <<serverVars, tableType, selectedRoute, image, lineSavedImage, isLoading, imageLoading,
                 noImageAvailable, pendingImg, saveVars>>

\* mutant: exitDrawing without setLineFinished(false)
toggleDrawingMode_KeepsFinished ==
  /\ drawingMode' = ~drawingMode
  /\ IF drawingMode
       THEN /\ points' = <<>>
            /\ lines' = <<>>
       ELSE UNCHANGED <<points, lines>>
  /\ UNCHANGED <<lineFinished, committed>>
  /\ lastOp' = Op("toggleDrawingMode")
  /\ viaUI' = (viaUI /\ ToggleEnabled)
  /\ UNCHANGED <<serverVars, tableType, selectedRoute, image, lineSavedImage, isLoading, imageLoading,
                 noImageAvailable, pendingImg, saveVars>>

\* toggleDrawingMode (lines 121-129): enterDrawing / exitDrawing
toggleDrawingMode ==
  /\ drawingMode' = ~drawingMode
  /\ IF drawingMode
       THEN /\ points' = <<>>
            /\ lines' = <<>>
            /\ lineFinished' = FALSE
            /\ committed' = <<>>
       ELSE UNCHANGED <<points, lines, lineFinished, committed>>
  /\ lastOp' = Op("toggleDrawingMode")
  /\ viaUI' = (viaUI /\ ToggleEnabled)
  /\ UNCHANGED <<serverVars, tableType, selectedRoute, image, lineSavedImage, isLoading, imageLoading,
                 noImageAvailable, pendingImg, saveVars>>

\* mutant: undoLastPoint without its guard
UndoAccepted_Always(pts) == TRUE

\* line 132: the guard of undoLastPoint
UndoAccepted(pts) == Len(pts) >= 2

\* mutant: the slice drops one coordinate instead of one point
DropLastPoint_OneCoordinate(pts) == SubSeq(pts, 1, Len(pts) - 1)

\* line 133: points.slice(0, points.length - 2)
DropLastPoint(pts) == SubSeq(pts, 1, Len(pts) - 2)

\* lines 135-139: the visible path after an undo
LinesAfterUndo(newPoints) == IF Len(newPoints) >= 2 THEN <<newPoints>> ELSE <<>>

\* undoLastPoint (lines 131-141)
undoLastPoint ==
  /\ IF UndoAccepted(points)
       THEN /\ points' = DropLastPoint(points)
            /\ lines' = LinesAfterUndo(DropLastPoint(points))
       ELSE UNCHANGED <<points, lines>>
  /\ lastOp' = Op("undoLastPoint")
  /\ viaUI' = (viaUI /\ UndoEnabled)
  /\ UNCHANGED <<serverVars, tableType, selectedRoute, image, lineSavedImage, drawingMode, isLoading,
                 imageLoading, noImageAvailable, lineFinished, pendingImg, saveVars, committed>>

\* mutant: finishLine accepts 2 coordinates, a single point
FinishAccepted_TwoCoordinates(pts) == Len(pts) >= 2

\* line 144: the guard of finishLine
FinishAccepted(pts) == Len(pts) >= 4

\* finishLine (lines 143-151)
finishLine ==
  /\ IF FinishAccepted(points)
       THEN /\ lines' = <<points>>
            /\ drawingMode' = FALSE
            /\ points' = <<>>
            /\ lineFinished' = TRUE
            /\ committed' = points
       ELSE UNCHANGED <<lines, drawingMode, points, lineFinished, committed>>
  /\ lastOp' = Op("finishLine")
  /\ viaUI' = (viaUI /\ FinishEnabled)
  /\ UNCHANGED <<serverVars, tableType, selectedRoute, image, lineSavedImage, isLoading, imageLoading,
                 noImageAvailable, pendingImg, saveVars>>

\* line 180: the guard of saveLine
SaveAccepted == ~(selectedRoute = Null \/ Len(lines) = 0 \/ ~StageRendered)

\* saveLine (lines 179-186, 237-243): sets isSaving and arms the 100 ms
\* timer; the callback closes over selectedRoute, image and tableType
saveLine ==
  /\ Cardinality(saves) < MaxSaves
  /\ IF SaveAccepted
       THEN /\ isSaving' = TRUE
            /\ saves' = saves \cup {[st |-> "timer", route |-> selectedRoute, img |-> image,
                                     tt |-> tableType, snap |-> Null, strokes |-> FALSE,
                                     url |-> NoUrl]}
       ELSE UNCHANGED <<isSaving, saves>>
  /\ lastOp' = Ev("saveLine")
  /\ viaUI' = (viaUI /\ SaveEnabled)
  /\ UNCHANGED <<serverVars, tableType, editorVars, pendingImg, toast, committed>>

\* lines 448-482: the canvas shows the in-progress strokes and point markers
StrokesVisible == drawingMode /\ Len(points) > 0

\* mutant: the timer callback without its catch, the error of a missing
\* Stage escapes and isSaving stays as it is
saveCapture_NoCatch(s) ==
  /\ s.st = "timer"
  /\ IF StageRendered
       THEN /\ saves' = (saves \ {s}) \cup
                          {[s EXCEPT !.st = "fetch", !.snap = image, !.strokes = StrokesVisible]}
            /\ UNCHANGED <<isSaving, toast>>
       ELSE /\ saves' = saves \ {s}
            /\ UNCHANGED <<isSaving, toast>>
  /\ lastOp' = IF StageRendered THEN Ev("saveCapture") ELSE Ev("saveFailed")
  /\ UNCHANGED <<serverVars, tableType, editorVars, pendingImg, committed, viaUI>>

\* the timer callback up to the fetch (lines 187-208): stageRef.current is
\* read when the timer fires; without a Stage toDataURL throws into the
\* catch of lines 232-236
saveCapture(s) ==
  /\ s.st = "timer"
  /\ IF StageRendered
       THEN /\ saves' = (saves \ {s}) \cup
                          {[s EXCEPT !.st = "fetch", !.snap = image, !.strokes = StrokesVisible]}
            /\ UNCHANGED <<isSaving, toast>>
       ELSE /\ saves' = saves \ {s}
            /\ toast' = "error"
            /\ isSaving' = FALSE
  /\ lastOp' = IF StageRendered THEN Ev("saveCapture") ELSE Ev("saveFailed")
  /\ UNCHANGED <<serverVars, tableType, editorVars, pendingImg, committed, viaUI>>

\* data.url of a 200 response of POST /api/optimize-route-line
\* (src/app/api/optimize-route-line/route.ts lines 47-49, 61-63, 78-80)
ResponseUrl(routeId, t) == PublicUrl(TimestampedPath(routeId, t))

\* mutant: the catch without setIsSaving(false)
saveFailed_KeepsSaving(s) ==
  /\ s.st = "fetch"
  /\ saves' = saves \ {s}
  /\ toast' = "error"
  /\ lastOp' = Ev("saveFailed")
  /\ UNCHANGED <<serverVars, tableType, editorVars, pendingImg, isSaving, committed, viaUI>>

\* the response is not ok, or fetch rejects (lines 210-212, 232-236)
saveFailed(s) ==
  /\ s.st = "fetch"
  /\ saves' = saves \ {s}
  /\ toast' = "error"
  /\ isSaving' = FALSE
  /\ lastOp' = Ev("saveFailed")
  /\ UNCHANGED <<serverVars, tableType, editorVars, pendingImg, committed, viaUI>>

\* the response is ok and carries data.url (lines 215-231); the onload
\* callback of lineImg closes over data.url only
saveSucceeded(s, t) ==
  /\ s.st = "fetch"
  /\ saves' = (saves \ {s}) \cup
                {[s EXCEPT !.st = "lineImg", !.url = ResponseUrl(s.route, t),
                           !.img = Null, !.snap = Null, !.strokes = FALSE]}
  /\ toast' = "success"
  /\ isSaving' = FALSE
  /\ lastOp' = Ev("saveSucceeded")
  /\ UNCHANGED <<serverVars, tableType, editorVars, pendingImg, committed, viaUI>>

\* mutant: lineImg.onload applies the URL only while the record of the save
\* is still selected
lineImgOnload_ChecksSelection(s) ==
  /\ s.st = "lineImg"
  /\ saves' = saves \ {s}
  /\ lineSavedImage' = IF selectedRoute = s.route THEN s.url ELSE lineSavedImage
  /\ lastOp' = Ev("lineImgOnload")
  /\ UNCHANGED <<serverVars, tableType, selectedRoute, image, lines, drawingMode, points, isLoading,
                 imageLoading, noImageAvailable, lineFinished, pendingImg, isSaving, toast,
                 committed, viaUI>>

\* lineImg.onload (lines 224-226)
lineImgOnload(s) ==
  /\ s.st = "lineImg"
  /\ saves' = saves \ {s}
  /\ lineSavedImage' = s.url
  /\ lastOp' = Ev("lineImgOnload")
  /\ UNCHANGED <<serverVars, tableType, selectedRoute, image, lines, drawingMode, points, isLoading,
                 imageLoading, noImageAvailable, lineFinished, pendingImg, isSaving, toast,
                 committed, viaUI>>

\* lineImg fails to load: it has no onerror handler
lineImgOnerror(s) ==
  /\ s.st = "lineImg"
  /\ saves' = saves \ {s}
  /\ lastOp' = Ev("lineImgOnerror")
  /\ UNCHANGED <<serverVars, tableType, editorVars, pendingImg, isSaving, toast, committed, viaUI>>

\* the 3 s timer of showToast (lines 164-166)
hideToast ==
  /\ toast # Null
  /\ toast' = Null
  /\ lastOp' = Ev("hideToast")
  /\ UNCHANGED <<serverVars, tableType, editorVars, pendingImg, isSaving, saves, committed, viaUI>>

\* ------------------------------------------------------------- the server
\* The three POST handlers.  A handler runs from one await to the next
\* without interruption, so each await is one step; any await can reject (or
\* return an error that the handler throws), which lands in the catch of the
\* handler and answers 500.

\* upload-image line 46
MAX_SIZE_KB == 300

Endpoints == {"upload-image", "optimize-line", "optimize-route-line"}

\* the tables of the record store and the rows they hold
Tables == {"route", "boulder"}
RowIds(table) == IF table = "route" THEN {"r1"} ELSE {"b1"}
RecordIds == {"r1", "b1"}

\* finalBuffer.length of one encode, in bytes: at the budget and just above it
EncodedSizes == {MAX_SIZE_KB * 1024, MAX_SIZE_KB * 1024 + 1}

\* the slots in which requests are handled
ReqIds == {1, 2}

IdleReq ==
  [ep |-> "none", pc |-> "idle", serial |-> 0, routeId |-> "", tableType |-> "",
   hasLine |-> FALSE, originalWidth |-> 0, originalHeight |-> 0,
   currentQuality |-> 0, currentWidth |-> 0, currentHeight |-> 0,
   bufLen |-> 0, bufWidth |-> 0, bufHeight |-> 0, bufQuality |-> 0,
   filePath |-> <<>>, publicUrl |-> NoUrl, uploadError |-> FALSE, updateError |-> FALSE,
   failedAt |-> "", updated |-> FALSE, uploadSeq |-> 0,
   status |-> 0, url |-> NoUrl]

\* upload-image lines 26-32
UploadImageFolder(tt, hasLine) ==
  IF hasLine
    THEN (IF tt = "boulder" THEN "boulder_lines" ELSE "routes_lines")
    ELSE (IF tt = "boulder" THEN "boulder" ELSE "routes")

\* part_001 lines 20-21
OptimizeLineFolder(tt) == IF tt = "boulder" THEN "boulders_lines" ELSE "routes_lines"

\* the blob path a request uploads to
UploadPath(q) ==
  CASE q.ep = "upload-image" -> FilePath(UploadImageFolder(q.tableType, q.hasLine), q.routeId)
    [] q.ep = "optimize-line" -> FilePath(OptimizeLineFolder(q.tableType), q.routeId)
    [] OTHER -> TimestampedPath(q.routeId, now)

\* the table a request updates: supabase.from(tableType), and
\* supabase.from("route") in optimize-route-line (line 67)
UpdateTable(q) == IF q.ep = "optimize-route-line" THEN "route" ELSE q.tableType

\* the field a request updates (upload-image line 120, part_001 line 73)
UpdateField(q) == IF q.ep = "upload-image" /\ ~q.hasLine THEN "image" ELSE "image_line"

\* Math.round(x * 0.9) for a whole number x (upload-image lines 82-83)
Round90(x) == (9 * x + 5) \div 10

\* mutant: the budget test with < in place of <=
FitsBudget_Strict(len) == len < MAX_SIZE_KB * 1024

\* upload-image line 71
FitsBudget(len) == len <= MAX_SIZE_KB * 1024

\* mutant: the floor test with && in place of ||
BelowFloor_BothAxes(cw, ch, ow, oh) == 2 * cw < ow /\ 2 * ch < oh

\* mutant: the floor test with <= in place of <
BelowFloor_AtHalf(cw, ch, ow, oh) == 2 * cw <= ow \/ 2 * ch <= oh

\* upload-image lines 87-90, with the shrunk currentWidth and currentHeight
BelowFloor(cw, ch, ow, oh) == 2 * cw < ow \/ 2 * ch < oh

\* the request arrives and its body is read (line 16-23)
Receive(r, ep, routeId, tt, hasLine, dims) ==
  /\ req[r].pc \in {"idle", "done"}
  /\ served < MaxRequests
  /\ served' = served + 1
  /\ req' = [req EXCEPT ![r] =
       [IdleReq EXCEPT !.ep = ep, !.pc = "mkdtemp", !.serial = served + 1,
                       !.routeId = routeId, !.tableType = tt, !.hasLine = hasLine,
                       !.originalWidth = dims[1], !.originalHeight = dims[2]]]
  /\ UNCHANGED <<clientVars, blobs, records, tmpDirs, tmpFiles, now>>

\* fs.mkdtemp (upload-image lines 39-42); the loop variables of lines 47-49
Mkdtemp(r) ==
  /\ req[r].pc = "mkdtemp"
  /\ tmpDirs' = tmpDirs \cup {req[r].serial}
  /\ req' = [req EXCEPT ![r].pc = "encode",
                        ![r].currentQuality = 80,
                        ![r].currentWidth = req[r].originalWidth,
                        ![r].currentHeight = req[r].originalHeight]
  /\ UNCHANGED <<clientVars, blobs, records, tmpFiles, now, served>>

\* one iteration of the while loop of upload-image (lines 52-95): the encode
\* of lines 54-69 yields a buffer of len bytes
EncodeLoop(r, len) ==
  LET q == req[r]
      encoded == [q EXCEPT !.bufLen = len, !.bufWidth = q.currentWidth,
                           !.bufHeight = q.currentHeight, !.bufQuality = q.currentQuality]
      shrunk == [encoded EXCEPT !.currentWidth = Round90(q.currentWidth),
                                !.currentHeight = Round90(q.currentHeight),
                                !.currentQuality = 60]
  IN /\ q.ep = "upload-image"
     /\ q.pc = "encode"
     /\ req' = [req EXCEPT ![r] =
          IF FitsBudget(len)
            THEN [encoded EXCEPT !.pc = "write"]
            ELSE IF q.currentQuality > 10
              THEN [encoded EXCEPT !.currentQuality = q.currentQuality - 10]
              ELSE IF BelowFloor(shrunk.currentWidth, shrunk.currentHeight,
                                 q.originalWidth, q.originalHeight)
                THEN [shrunk EXCEPT !.pc = "write"]
                ELSE shrunk]
     /\ UNCHANGED <<clientVars, blobs, records, tmpDirs, tmpFiles, now, served>>

\* fs.writeFile(tmpFilePath, finalBuffer) on either exit of the loop (lines 73, 91)
WriteFile(r) ==
  /\ req[r].pc = "write"
  /\ tmpFiles' = tmpFiles \cup {req[r].serial}
  /\ req' = [req EXCEPT ![r].pc = "upload"]
  /\ UNCHANGED <<clientVars, blobs, records, tmpDirs, now, served>>

\* the single encode of the line endpoints: sharp(...).toFile(tmpFilePath) and
\* fs.readFile (part_001 lines 34-49, optimize-route-line lines 29-44)
EncodeOnce(r, len) ==
  /\ req[r].ep \in {"optimize-line", "optimize-route-line"}
  /\ req[r].pc = "encode"
  /\ tmpFiles' = tmpFiles \cup {req[r].serial}
  /\ req' = [req EXCEPT ![r].pc = "upload",
                        ![r].bufLen = len,
                        ![r].bufWidth = req[r].originalWidth,
                        ![r].bufHeight = req[r].originalHeight,
                        ![r].bufQuality = 80]
  /\ UNCHANGED <<clientVars, blobs, records, tmpDirs, now, served>>

\* upload(filePath, buffer, {upsert: true}): the blob at filePath is created or replaced
Upsert(store, filePath, content) ==
  {b \in store : b.path # filePath} \cup {[path |-> filePath, content |-> content]}

\* the upload succeeds (upload-image lines 98-114); uploadSeq is history:
\* the position of this upload among the uploads of the requests in the slots
Upload(r) ==
  /\ req[r].pc = "upload"
  /\ blobs' = Upsert(blobs, UploadPath(req[r]), req[r].serial)
  /\ req' = [req EXCEPT ![r].pc = "update",
                        ![r].uploadSeq = 1 + Cardinality({q \in ReqIds : req[q].uploadSeq > 0}),
                        ![r].filePath = UploadPath(req[r]),
                        ![r].publicUrl = PublicUrl(UploadPath(req[r]))]
  /\ UNCHANGED <<clientVars, records, tmpDirs, tmpFiles, now, served>>

\* mutant: the upload error is not thrown and the handler goes on
UploadFails_NoThrow(r) ==
  /\ req[r].pc = "upload"
  /\ req' = [req EXCEPT ![r].uploadError = TRUE, ![r].pc = "update",
                        ![r].filePath = UploadPath(req[r]),
                        ![r].publicUrl = PublicUrl(UploadPath(req[r]))]
  /\ UNCHANGED <<clientVars, blobs, records, tmpDirs, tmpFiles, now, served>>

\* the upload returns an error (or rejects): if (uploadError) throw uploadError
\* (upload-image lines 102-109, part_001 lines 55-62, optimize-route-line
\* lines 51-58), caught at lines 134-140
UploadFails(r) ==
  /\ req[r].pc = "upload"
  /\ req' = [req EXCEPT ![r].uploadError = TRUE, ![r].failedAt = "upload",
                        ![r].pc = "done", ![r].status = 500]
  /\ UNCHANGED <<clientVars, blobs, records, tmpDirs, tmpFiles, now, served>>

\* .update({field: publicUrl}).eq("id", routeId): the rows with that id
SetField(recs, table, id, field, value) ==
  [t \in Tables |->
    [i \in RowIds(t) |->
      IF t = table /\ i = id
        THEN (IF field = "image" THEN [recs[t][i] EXCEPT !.image = value]
                                 ELSE [recs[t][i] EXCEPT !.image_line = value])
        ELSE recs[t][i]]]

\* the update succeeds (upload-image lines 117-124)
Update(r) ==
  /\ req[r].pc = "update"
  /\ records' = SetField(records, UpdateTable(req[r]), req[r].routeId,
                         UpdateField(req[r]), req[r].publicUrl)
  /\ req' = [req EXCEPT ![r].pc = "rm", ![r].updated = TRUE]
  /\ UNCHANGED <<clientVars, blobs, tmpDirs, tmpFiles, now, served>>

\* mutant: a failed update removes the blob that was just uploaded
UpdateFails_RollsBack(r) ==
  /\ req[r].pc = "update"
  /\ req' = [req EXCEPT ![r].updateError = TRUE, ![r].failedAt = "update",
                        ![r].pc = "done", ![r].status = 500]
  /\ blobs' = {b \in blobs : b.path # req[r].filePath}
  /\ UNCHANGED <<clientVars, records, tmpDirs, tmpFiles, now, served>>

\* the update returns an error (or rejects): if (updateError) throw updateError
\* (upload-image lines 117-124, part_001 lines 70-77, optimize-route-line
\* lines 66-73)
UpdateFails(r) ==
  /\ req[r].pc = "update"
  /\ req' = [req EXCEPT ![r].updateError = TRUE, ![r].failedAt = "update",
                        ![r].pc = "done", ![r].status = 500]
  /\ UNCHANGED <<clientVars, blobs, records, tmpDirs, tmpFiles, now, served>>

\* fs.rm(tmpDir, {recursive: true}) and the 200 response (lines 127-133)
Rm(r) ==
  /\ req[r].pc = "rm"
  /\ tmpDirs' = tmpDirs \ {req[r].serial}
  /\ tmpFiles' = tmpFiles \ {req[r].serial}
  /\ req' = [req EXCEPT ![r].pc = "done", ![r].status = 200, ![r].url = req[r].publicUrl]
  /\ UNCHANGED <<clientVars, blobs, records, now, served>>

\* the pending await of a file-system or sharp call rejects: control goes to
\* the catch (lines 134-140)
Throw(r) ==
  /\ req[r].pc \in {"mkdtemp", "encode", "write", "rm"}
  /\ req' = [req EXCEPT ![r].pc = "done", ![r].status = 500, ![r].failedAt = req[r].pc]
  /\ UNCHANGED <<clientVars, blobs, records, tmpDirs, tmpFiles, now, served>>

\* time passes
Tick ==
  /\ now < MaxClock
  /\ now' = now + 1
  /\ UNCHANGED <<clientVars, req, blobs, records, tmpDirs, tmpFiles, served>>

\* ------------------------------------------------------------- the editor
ServerIdle ==
  /\ req = [r \in ReqIds |-> IdleReq]
  /\ blobs = {}
  /\ records = [t \in Tables |-> [i \in RowIds(t) |-> [image |-> NoUrl, image_line |-> NoUrl]]]
  /\ tmpDirs = {}
  /\ tmpFiles = {}
  /\ now = 1
  /\ served = 0

ClientInit ==
  /\ tableType \in {"route", "boulder"}
  /\ selectedRoute = Null
  /\ image = Null
  /\ lineSavedImage = NoUrl
  /\ lines = <<>>
  /\ drawingMode = FALSE
  /\ points = <<>>
  /\ isLoading = FALSE
  /\ imageLoading = FALSE
  /\ noImageAvailable = FALSE
  /\ isSaving = FALSE
  /\ lineFinished = FALSE
  /\ toast = Null
  /\ pendingImg = [r \in Routes |-> 0]
  /\ saves = {}
  /\ lastOp = Ev("init")
  /\ committed = <<>>
  /\ viaUI = TRUE

Init == ClientInit /\ tableType = "route" /\ ServerIdle

Next ==
  \/ \E r \in Routes \cup {Null} : handleRouteSelect(r)
  \/ \E r \in Routes : imgOnload(r)
  \/ \E r \in Routes : imgOnerror(r)
  \/ \E pos \in PointerPositions : handleMouseDown(pos)
  \/ toggleDrawingMode
  \/ undoLastPoint
  \/ finishLine

Spec == Init /\ [][Next]_vars

\* ------------------------------------------- the editor with the save round trip
\* The session as a user can drive it: a handler runs only while the control
\* that calls it is rendered and enabled (the select is always enabled, the
\* Stage takes clicks whenever it is rendered); the callbacks of image loads,
\* timers and the fetch run whenever they are due.  Every click lands on the
\* same position and the routes chosen are r1 and r2 (the empty option of
\* the select is part of Spec).
SavePositions == {<<100, 100>>}

SaveRoutes == {"r1", "r2"}

InitSave == ClientInit /\ tableType = "route" /\ ServerIdle

NextSave ==
  \/ \E r \in SaveRoutes : handleRouteSelect(r)
  \/ \E r \in SaveRoutes : imgOnload(r)
  \/ \E r \in SaveRoutes : imgOnerror(r)
  \/ \E pos \in SavePositions : StageRendered /\ handleMouseDown(pos)
  \/ ToggleEnabled /\ toggleDrawingMode
  \/ UndoEnabled /\ undoLastPoint
  \/ FinishEnabled /\ finishLine
  \/ SaveEnabled /\ saveLine
  \/ \E s \in saves : saveCapture(s)
  \/ \E s \in saves : saveFailed(s)
  \/ \E s \in saves, t \in Timestamps : saveSucceeded(s, t)
  \/ \E s \in saves : lineImgOnload(s)
  \/ \E s \in saves : lineImgOnerror(s)
  \/ hideToast

SpecSave == InitSave /\ [][NextSave]_vars

\* ------------------------------------------- one save at a time, to its end
\* The session of SpecSave with a patient user: a record is selected only
\* when no image load is pending, the canvas is clicked only until the path
\* can be finished, and a save is started only when the callbacks of the
\* earlier saves have all run.  The 100 ms timer of a save fires, and the
\* fetch of a save resolves or rejects.
NextSaveOnce ==
  \/ \E r \in SaveRoutes :
       /\ \A x \in SaveRoutes : pendingImg[x] = 0
       /\ handleRouteSelect(r)
  \/ \E r \in SaveRoutes : imgOnload(r)
  \/ \E r \in SaveRoutes : imgOnerror(r)
  \/ \E pos \in SavePositions :
       /\ StageRendered /\ ~FinishAccepted(points)
       /\ handleMouseDown(pos)
  \/ ToggleEnabled /\ toggleDrawingMode
  \/ UndoEnabled /\ undoLastPoint
  \/ FinishEnabled /\ finishLine
  \/ SaveEnabled /\ saves = {} /\ saveLine
  \/ \E s \in saves : saveCapture(s)
  \/ \E s \in saves : saveFailed(s)
  \/ \E s \in saves, t \in Timestamps : saveSucceeded(s, t)
  \/ \E s \in saves : lineImgOnload(s)
  \/ \E s \in saves : lineImgOnerror(s)
  \/ hideToast

SpecSaveFair ==
  /\ InitSave
  /\ [][NextSaveOnce]_vars
  /\ WF_vars(\E s \in saves : saveCapture(s))
  /\ WF_vars(\E s \in saves : saveFailed(s) \/ \E t \in Timestamps : saveSucceeded(s, t))

\* ------------------------------------------------- the server, one request at a time
\* the original dimensions of the uploads; the uploaded images fit the
\* budget at quality 70 at the latest (the loop has SpecLoop to itself)
ServerDims == {<<1200, 800>>}

InitServer == ClientInit /\ tableType = "route" /\ ServerIdle

NextServer ==
  \/ \E ep \in Endpoints, id \in RecordIds, tt \in Tables, hasLine \in BOOLEAN,
        dims \in ServerDims :
       /\ ep # "upload-image" => ~hasLine
       /\ Receive(1, ep, id, tt, hasLine, dims)
  \/ Mkdtemp(1)
  \/ \E len \in EncodedSizes :
       /\ req[1].currentQuality < 80 => FitsBudget(len)
       /\ EncodeLoop(1, len)
  \/ WriteFile(1)
  \/ \E len \in EncodedSizes : EncodeOnce(1, len)
  \/ Upload(1)
  \/ UploadFails(1)
  \/ Update(1)
  \/ UpdateFails(1)
  \/ Rm(1)
  \/ Throw(1)
  \/ Tick

SpecServer == InitServer /\ [][NextServer]_vars

\* ------------------------------------ the compression loop of upload-image
\* one upload-image request, for every original width and height up to MaxDim
InitLoop ==
  /\ ClientInit /\ tableType = "route"
  /\ ServerIdle

NextLoop ==
  \/ \E ow \in 1..MaxDim, oh \in 1..MaxDim, hasLine \in BOOLEAN :
       /\ served = 0
       /\ Receive(1, "upload-image", "r1", "route", hasLine, <<ow, oh>>)
  \/ Mkdtemp(1)
  \/ \E len \in EncodedSizes : EncodeLoop(1, len)
  \/ WriteFile(1)
  \/ Upload(1)
  \/ UploadFails(1)
  \/ Update(1)
  \/ UpdateFails(1)
  \/ Rm(1)
  \/ Throw(1)

SpecLoop == InitLoop /\ [][NextLoop]_vars

\* the loop does not stall: an iteration that can run does run (each is a
\* sharp call that resolves or rejects)
SpecLoopFair ==
  /\ InitLoop
  /\ [][NextLoop]_vars
  /\ WF_vars(\E len \in EncodedSizes : EncodeLoop(1, len))

\* ------------------------------ two successive line saves of one record
\* a line save of a record of the table named in the request, and after its
\* 200 response a second save by the same endpoint for the same record and
\* table; the first is handled in slot 1, the second in slot 2
InitTwoSaves == ClientInit /\ tableType = "route" /\ ServerIdle

NextTwoSaves ==
  \/ \E ep \in Endpoints, tt \in Tables, dims \in ServerDims :
       \E id \in RowIds(tt) :
         /\ served = 0
         /\ Receive(1, ep, id, tt, TRUE, dims)
  \/ \E dims \in ServerDims :
       /\ served = 1
       /\ req[1].pc = "done" /\ req[1].status = 200
       /\ Receive(2, req[1].ep, req[1].routeId, req[1].tableType, TRUE, dims)
  \/ \E r \in ReqIds : Mkdtemp(r)
  \/ \E r \in ReqIds, len \in EncodedSizes :
       /\ req[r].currentQuality < 80 => FitsBudget(len)
       /\ EncodeLoop(r, len)
  \/ \E r \in ReqIds : WriteFile(r)
  \/ \E r \in ReqIds, len \in EncodedSizes : EncodeOnce(r, len)
  \/ \E r \in ReqIds : Upload(r)
  \/ \E r \in ReqIds : UploadFails(r)
  \/ \E r \in ReqIds : Update(r)
  \/ \E r \in ReqIds : UpdateFails(r)
  \/ \E r \in ReqIds : Rm(r)
  \/ \E r \in ReqIds : Throw(r)
  \/ Tick

SpecTwoSaves == InitTwoSaves /\ [][NextTwoSaves]_vars

\* ------------------------------ two concurrent saves of one record
\* a save of a record of the table named in the request and, at any time
\* after it has arrived, a second save by the same endpoint for the same
\* record, table and category; the awaits of the two handlers interleave
InitRace == ClientInit /\ tableType = "route" /\ ServerIdle

NextRace ==
  \/ \E ep \in Endpoints, tt \in Tables, hasLine \in BOOLEAN, dims \in ServerDims :
       \E id \in RowIds(tt) :
         /\ served = 0
         /\ ep # "upload-image" => ~hasLine
         /\ Receive(1, ep, id, tt, hasLine, dims)
  \/ \E dims \in ServerDims :
       /\ served = 1
       /\ Receive(2, req[1].ep, req[1].routeId, req[1].tableType, req[1].hasLine, dims)
  \/ \E r \in ReqIds : Mkdtemp(r)
  \/ \E r \in ReqIds, len \in EncodedSizes :
       /\ req[r].currentQuality < 80 => FitsBudget(len)
       /\ EncodeLoop(r, len)
  \/ \E r \in ReqIds : WriteFile(r)
  \/ \E r \in ReqIds, len \in EncodedSizes : EncodeOnce(r, len)
  \/ \E r \in ReqIds : Upload(r)
  \/ \E r \in ReqIds : UploadFails(r)
  \/ \E r \in ReqIds : Update(r)
  \/ \E r \in ReqIds : UpdateFails(r)
  \/ \E r \in ReqIds : Rm(r)
  \/ \E r \in ReqIds : Throw(r)
  \/ Tick

SpecRace == InitRace /\ [][NextRace]_vars

\* =========================================================== the claims
\* In the formulas below lastOp' names the handler a step runs and lastOp
\* the handler the state results from; lastOp.n is the number of
\* coordinates the handler found in points.

\* the while loop of request r has ended and finalBuffer goes to the upload
LoopExited(r) ==
  /\ req[r].ep = "upload-image"
  /\ \/ req[r].pc \in {"write", "upload", "update", "rm"}
     \/ req[r].pc = "done" /\ req[r].failedAt \notin {"mkdtemp", "encode"}

\* C1 as stated: the buffer accepted on loop exit has a byte size of at most
\* 300 KB, or the width or height it was encoded at is at most 50% of the
\* original.
C1_SizeOrHalfDimensions ==
  LoopExited(1) =>
     \/ req[1].bufLen <= MAX_SIZE_KB * 1024
     \/ 2 * req[1].bufWidth <= req[1].originalWidth
     \/ 2 * req[1].bufHeight <= req[1].originalHeight

\* C1 amended: the buffer accepted on loop exit has a byte size of at most
\* 300 KB, or the width or height of the next candidate (currentWidth and
\* currentHeight after one more 10% shrink, never encoded) is below 50% of
\* the original; the accepted buffer is then the encode at quality 10 of the
\* last tier, whose width and height are both at least 50% of the original.
C1_SizeOrNextTierBelowHalf ==
  LoopExited(1) =>
     \/ req[1].bufLen <= MAX_SIZE_KB * 1024
     \/ /\ \/ 2 * req[1].currentWidth < req[1].originalWidth
           \/ 2 * req[1].currentHeight < req[1].originalHeight
        /\ 10 * req[1].currentWidth - 9 * req[1].bufWidth \in -4..5
        /\ 10 * req[1].currentHeight - 9 * req[1].bufHeight \in -4..5
        /\ req[1].bufQuality = 10
        /\ 2 * req[1].bufWidth >= req[1].originalWidth
        /\ 2 * req[1].bufHeight >= req[1].originalHeight

\* the loop ended over budget on the dimension floor, with a buffer encoded
\* at more than half of the original width and height
C1_Witness ==
  /\ LoopExited(1)
  /\ req[1].bufLen > MAX_SIZE_KB * 1024
  /\ 2 * req[1].bufWidth > req[1].originalWidth
  /\ 2 * req[1].bufHeight > req[1].originalHeight

\* C2 as stated: undoLastPoint is a no-op whenever the working buffer holds
\* fewer than 2 points (here in behaviours that only use enabled controls).
C2_UndoNoOpBelowTwoPoints ==
  [][(viaUI' /\ lastOp'.op = "undoLastPoint" /\ NumPoints(points) < 2)
       => UNCHANGED <<points, lines, drawingMode, lineFinished>>]_vars

\* C2 amended: undoLastPoint is a no-op (the whole component state is
\* unchanged) whenever the working buffer holds no point; when it holds
\* exactly 1 point the call removes that point and leaves the working buffer
\* and the visible path empty, drawingMode and finished unchanged.
C2_UndoNoOpWhenEmpty ==
  [][lastOp'.op = "undoLastPoint" =>
       /\ NumPoints(points) = 0 => UNCHANGED programVars
       /\ NumPoints(points) = 1 => /\ points' = <<>>
                                   /\ lines' = <<>>
                                   /\ UNCHANGED <<drawingMode, lineFinished>>]_vars

\* undoLastPoint ran on an empty working buffer while a committed path was visible
C2_Witness ==
  lastOp.op = "undoLastPoint" /\ lastOp.n = 0 /\ Len(lines) = 1 /\ lineFinished

\* C3 as stated: after an undoLastPoint that removed a point and left fewer
\* than 2 points in the working buffer, the visible path is empty (here in
\* behaviours that only use enabled controls).
C3_VisiblePathEmptyBelowTwoPoints ==
  (viaUI /\ lastOp.op = "undoLastPoint" /\ lastOp.n >= 2 /\ NumPoints(points) < 2)
    => lines = <<>>

\* C4 as stated: once finished is true, every addPoint call leaves the
\* working buffer and the committed path unchanged (here in behaviours that
\* only use enabled controls).
C4_AddPointNoOpWhenFinished ==
  [][(viaUI' /\ lineFinished /\ lastOp'.op = "handleMouseDown")
       => UNCHANGED <<points, lines>>]_vars

\* C5 as stated: whenever finished is true the committed path is the point
\* sequence committed by the most recent accepted finishLine and has at
\* least 2 points (here in behaviours that only use enabled controls).
C5_FinishedPathImmutable ==
  (viaUI /\ lineFinished) => (lines = <<committed>> /\ NumPoints(committed) >= 2)

\* C6: finishLine with fewer than 2 points in the working buffer changes no
\* state; with 2 or more points it sets drawingMode to false and finished to
\* true, empties the working buffer and makes the committed path the working
\* buffer as it was before the call.
C6_FinishLine ==
  [][lastOp'.op = "finishLine" =>
       IF NumPoints(points) < 2
         THEN UNCHANGED programVars
         ELSE /\ drawingMode' = FALSE
              /\ lineFinished' = TRUE
              /\ points' = <<>>
              /\ Len(lines') = 1
              /\ Len(lines'[1]) = Len(points)
              /\ \A i \in 1..Len(points) : lines'[1][i] = points[i]]_vars

\* an accepted finishLine has just committed a path of at least 2 points
C6_Witness ==
  /\ lastOp.op = "finishLine" /\ lastOp.n >= 4
  /\ lineFinished /\ ~drawingMode /\ points = <<>> /\ lines = <<committed>>

\* C7: while drawingMode is true and a base image is loaded, addPoint appends
\* exactly its point to the end of the working buffer; when drawingMode is
\* false or no image is loaded it changes nothing.
C7_AddPointAppends ==
  [][lastOp'.op = "handleMouseDown" =>
       IF drawingMode /\ image # Null
         THEN /\ Len(points') = Len(points) + 2
              /\ \A i \in 1..Len(points) : points'[i] = points[i]
              /\ points'[Len(points) + 1] = lastOp'.arg[1]
              /\ points'[Len(points) + 2] = lastOp'.arg[2]
         ELSE UNCHANGED programVars]_vars

\* a second, different point was appended behind a first one
C7_Witness ==
  /\ lastOp.op = "handleMouseDown" /\ lastOp.n = 2 /\ Len(points) = 4
  /\ <<points[1], points[2]>> # lastOp.arg
  /\ <<points[3], points[4]>> = lastOp.arg

\* C8: undoLastPoint called with 2 or more points in the working buffer
\* removes exactly the last point: the earlier points stay, in their order.
C8_UndoRemovesLastPoint ==
  [][(lastOp'.op = "undoLastPoint" /\ NumPoints(points) >= 2) =>
       /\ Len(points') = Len(points) - 2
       /\ \A i \in 1..(Len(points) - 2) : points'[i] = points[i]]_vars

\* undoLastPoint took the third of three points, of which the first two differ
C8_Witness ==
  /\ lastOp.op = "undoLastPoint" /\ lastOp.n = 6 /\ Len(points) = 4
  /\ <<points[1], points[2]>> # <<points[3], points[4]>>

\* C9 as stated: whenever the selected record changes, also to "no record
\* selected", the session is reset: drawingMode is false, the working buffer
\* and the committed path are empty, finished is false, the base image is
\* cleared and the saved-line image is not the one of the old record.
C9_SelectionChangeResets ==
  (viaUI /\ lastOp.op = "handleRouteSelect") =>
     /\ drawingMode = FALSE
     /\ points = <<>>
     /\ lines = <<>>
     /\ lineFinished = FALSE
     /\ image = Null
     /\ lineSavedImage = IF selectedRoute # Null /\ RouteImageLine(selectedRoute) # NoUrl
                           THEN CacheBusted(RouteImageLine(selectedRoute))
                           ELSE NoUrl

\* C10: in every endpoint, a request whose upload to the blob store failed
\* never attempts the record update and ends with the 500 response.
C10_UploadFailureSkipsUpdate ==
  \A r \in ReqIds :
    req[r].uploadError =>
       /\ ~req[r].updated
       /\ req[r].pc = "done"
       /\ req[r].status = 500
       /\ req[r].url = NoUrl

\* the upload of a request of the endpoint the editor calls has failed
C10_Witness ==
  /\ req[1].ep = "optimize-route-line"
  /\ req[1].uploadError
  /\ req[1].status = 500

\* C11 as stated: when a request of upload-image or of the optimize-line
\* endpoint has been answered, with 200 or with 500 after a failure at any
\* step, the temporary directory and the temporary file created for it no
\* longer exist.
C11_TempDirRemovedOnEveryPath ==
  \A r \in ReqIds :
    (req[r].ep \in {"upload-image", "optimize-line"} /\ req[r].pc = "done") =>
       /\ req[r].serial \notin tmpDirs
       /\ req[r].serial \notin tmpFiles

\* the blobs of the bucket that lie in a folder and carry a record id in
\* their name
BlobsOf(folderName, id) ==
  {b \in blobs : Len(b.path) >= 3 /\ b.path[1] = folderName /\ b.path[3] = id}

\* C12 as stated: when the second of two successive successful line saves
\* for the same record and category has been answered, it has written to the
\* blob path of the first, exactly one blob exists for that record and
\* category, that blob holds the bytes of the second save, and the public
\* reference the second save stores in the record (the URL it answers with)
\* is the one the first save stored.
C12_SecondSaveSupersedesFirst ==
  (req[2].pc = "done" /\ req[2].status = 200) =>
     /\ req[2].filePath = req[1].filePath
     /\ Cardinality(BlobsOf(req[2].filePath[1], req[2].routeId)) = 1
     /\ \A b \in BlobsOf(req[2].filePath[1], req[2].routeId) : b.content = req[2].serial
     /\ req[2].url = req[1].url

\* C13 as stated: every blob path written has the form
\* {folder}/{recordId}.webp with folder one of routes, boulders,
\* routes_lines, boulders_lines, and every endpoint writes the blob of a
\* record and category (the table named in the request, line or base image)
\* to the one path {routes|boulders}[_lines]/{recordId}.webp.
C13_CanonicalBlobPath ==
  LET Folder(tt, line) == IF tt = "boulder"
                            THEN (IF line THEN "boulders_lines" ELSE "boulders")
                            ELSE (IF line THEN "routes_lines" ELSE "routes")
  IN /\ \A b \in blobs :
          /\ Len(b.path) = 4
          /\ b.path[1] \in {"routes", "boulders", "routes_lines", "boulders_lines"}
          /\ b.path[2] = "/"
          /\ b.path[3] \in RecordIds
          /\ b.path[4] = ".webp"
     /\ \A r \in ReqIds :
          req[r].filePath # <<>> =>
            req[r].filePath = <<Folder(req[r].tableType, UpdateField(req[r]) = "image_line"),
                                "/", req[r].routeId, ".webp">>

\* C14 as stated: when a line save for a record R of table T, sent with
\* tableType T as the editor sends it, has been answered 200, the image_line
\* field of record R in table T holds the URL of the save, and no record of
\* the other table does.
C14_LineSaveUpdatesNamedTable ==
  \A r \in ReqIds :
    (/\ req[r].ep \in {"optimize-line", "optimize-route-line"}
     /\ req[r].routeId \in RowIds(req[r].tableType)
     /\ req[r].pc = "done" /\ req[r].status = 200) =>
       /\ records[req[r].tableType][req[r].routeId].image_line = req[r].url
       /\ \A t \in Tables \ {req[r].tableType} :
            \A i \in RowIds(t) : records[t][i].image_line # req[r].url

\* C15 as stated: a request that has been answered ended in one of two
\* ways: with 200 and a URL U, and then the blob is stored at the path just
\* written, U is the public URL of that path and ends in .webp, and the field
\* of the record named by the request holds U; or with 500 and no URL.
C15_SuccessOnlyWhenStoredAndRecorded ==
  \A r \in ReqIds :
    req[r].pc = "done" =>
       \/ /\ req[r].status = 200
          /\ req[r].url # NoUrl
          /\ req[r].url = PublicUrl(req[r].filePath)
          /\ req[r].url[Len(req[r].url)] = ".webp"
          /\ \E b \in blobs : b.path = req[r].filePath /\ b.content = req[r].serial
          /\ req[r].routeId \in RowIds(req[r].tableType)
          /\ LET rec == records[req[r].tableType][req[r].routeId]
             IN (IF UpdateField(req[r]) = "image" THEN rec.image ELSE rec.image_line) = req[r].url
       \/ /\ req[r].status = 500
          /\ req[r].url = NoUrl

\* the saves that have been triggered and have not resolved: the 100 ms
\* timer is armed, or the fetch is awaited
InFlight == {s \in saves : s.st \in {"timer", "fetch"}}

\* C16: in a session driven through the controls at most one save is in
\* flight at any time, and while one is in flight the saving flag is true
\* and the save control is not available, also after the selected record
\* has changed.
C16_AtMostOneSaveInFlight ==
  /\ Cardinality(InFlight) <= 1
  /\ InFlight # {} => (isSaving /\ ~SaveEnabled)

\* a save is awaiting its response while another record has been selected
\* and its image has loaded
C16_Witness ==
  \E s \in InFlight :
    /\ s.st = "fetch"
    /\ selectedRoute # s.route
    /\ image = selectedRoute
    /\ isSaving

\* C17: the buffer that leaves the compression loop for the upload was
\* encoded at a width of at least 50% of the original width and a height of
\* at least 50% of the original height, whatever the original size and the
\* encoded sizes, also when it is still over the 300 KB budget.
C17_NeverEncodedBelowHalf ==
  LoopExited(1) =>
     /\ 2 * req[1].bufWidth >= req[1].originalWidth
     /\ 2 * req[1].bufHeight >= req[1].originalHeight

\* the loop gave up on the dimension floor, still over budget, with a buffer
\* encoded at exactly half of the original width
C17_Witness ==
  /\ LoopExited(1)
  /\ req[1].bufLen > MAX_SIZE_KB * 1024
  /\ req[1].bufQuality = 10
  /\ 2 * req[1].bufWidth = req[1].originalWidth
  /\ req[1].pc = "upload"

\* C18 as stated: the compression loop terminates for every original width
\* and height and every behaviour of the encoded sizes: a request that has
\* entered the loop eventually leaves it.
C18_LoopTerminates ==
  (req[1].ep = "upload-image" /\ req[1].pc = "encode") ~> (req[1].pc # "encode")

\* C19: toggleDrawingMode called while drawingMode is true (exitDrawing)
\* leaves drawingMode false, the working buffer empty and finished false,
\* whatever the state before; called while drawingMode is false
\* (enterDrawing) it sets drawingMode to true and changes nothing else of
\* the component state.
C19_ToggleDrawingMode ==
  [][lastOp'.op = "toggleDrawingMode" =>
       IF drawingMode
         THEN /\ drawingMode' = FALSE
              /\ points' = <<>>
              /\ lineFinished' = FALSE
         ELSE /\ drawingMode' = TRUE
              /\ UNCHANGED <<tableType, selectedRoute, image, lineSavedImage, lines, points,
                             isLoading, imageLoading, noImageAvailable, lineFinished,
                             pendingImg, saveVars>>]_vars

\* exitDrawing has just abandoned a working buffer of at least 2 points
C19_Witness ==
  /\ lastOp.op = "toggleDrawingMode" /\ lastOp.n >= 4
  /\ ~drawingMode /\ points = <<>> /\ ~lineFinished

\* C20: a save that fails (the Stage is gone when the timer fires, the
\* fetch rejects or the response is not ok) leaves the committed path, the
\* finished flag, the working buffer and drawingMode unchanged and sets the
\* saving flag to false, so that the save control of a finished path is
\* enabled again.
C20_FailedSaveKeepsPath ==
  [][lastOp'.op = "saveFailed" =>
       /\ UNCHANGED <<lines, lineFinished, points, drawingMode>>
       /\ isSaving' = FALSE
       /\ (lineFinished /\ image # Null /\ selectedRoute # Null /\ ~isLoading)
            => SaveEnabled']_vars

\* the fetch of a save has failed; the finished path is still there and the
\* save control is enabled again
C20_Witness ==
  /\ lastOp.op = "saveFailed"
  /\ toast = "error"
  /\ lineFinished /\ Len(lines) = 1 /\ lines = <<committed>>
  /\ ~isSaving
  /\ SaveEnabled /\ SaveAccepted

\* C21: when the record update of a request fails after its upload has
\* succeeded, the request is answered 500 without a URL, no record changes
\* (the field keeps its previous value) and the blob store is left as the
\* upload made it: the uploaded blob stays at its path with the bytes of
\* this request.
C21_UpdateFailureKeepsBlob ==
  [][\A r \in ReqIds :
       (req'[r].updateError /\ ~req[r].updateError) =>
          /\ req[r].pc = "update" /\ ~req[r].uploadError
          /\ req'[r].pc = "done" /\ req'[r].status = 500 /\ req'[r].url = NoUrl
          /\ records' = records
          /\ blobs' = blobs
          /\ [path |-> req[r].filePath, content |-> req[r].serial] \in blobs']_vars

\* the update of a second upload-image request has failed after the first
\* had succeeded: the record still holds the URL the first request stored
\* and the blob holds the bytes of the second
C21_Witness ==
  /\ req[1].ep = "upload-image" /\ req[1].routeId = "r1" /\ req[1].tableType = "route"
  /\ ~req[1].hasLine
  /\ req[1].updateError /\ req[1].status = 500 /\ req[1].serial = 2
  /\ records["route"]["r1"].image = req[1].publicUrl
  /\ [path |-> req[1].filePath, content |-> 2] \in blobs

\* the request whose upload came last
LastUploader == CHOOSE r \in ReqIds : \A q \in ReqIds : req[q].uploadSeq <= req[r].uploadSeq

\* the value of the field a request updates, in the record it addresses
RecordRef(q) ==
  LET rec == records[UpdateTable(q)][q.routeId]
  IN IF UpdateField(q) = "image" THEN rec.image ELSE rec.image_line

\* C22 as stated: when two concurrent saves for the same record and category
\* have both been answered 200 (and the table the endpoint updates holds the
\* record), the reference in the record is the public URL of a blob that
\* holds the bytes of the save that uploaded last, and every blob of that
\* record and category holds those bytes.
C22_LastWriterWins ==
  (/\ \A r \in ReqIds : req[r].pc = "done" /\ req[r].status = 200
   /\ req[1].routeId \in RowIds(UpdateTable(req[1]))) =>
     /\ \E b \in blobs : /\ PublicUrl(b.path) = RecordRef(req[1])
                         /\ b.content = req[LastUploader].serial
     /\ \A b \in BlobsOf(req[1].filePath[1], req[1].routeId) :
          b.content = req[LastUploader].serial

\* C23: the compression loop starts with the candidate quality 80 at the
\* original dimensions; each iteration encodes the current candidate; when
\* its size is at most 300 KB the loop stops with that buffer; otherwise the
\* next candidate is the same dimensions at 10 less quality while the
\* quality is above 10, and quality 60 at 90% of the width and height
\* (rounded, never larger) once the quality is 10; after the loop no further
\* candidate is encoded.
C23_CandidateOrder ==
  [][LET q == req[1]
         n == req'[1]
     IN /\ (q.ep = "upload-image" /\ q.pc = "mkdtemp" /\ n.pc = "encode") =>
             /\ n.currentQuality = 80
             /\ n.currentWidth = q.originalWidth
             /\ n.currentHeight = q.originalHeight
        /\ (q.ep = "upload-image" /\ q.pc = "encode" /\ n.pc \in {"encode", "write"}) =>
             /\ n.bufQuality = q.currentQuality
             /\ n.bufWidth = q.currentWidth
             /\ n.bufHeight = q.currentHeight
             /\ IF n.bufLen <= MAX_SIZE_KB * 1024
                  THEN /\ n.pc = "write"
                       /\ n.currentQuality = q.currentQuality
                       /\ n.currentWidth = q.currentWidth
                       /\ n.currentHeight = q.currentHeight
                  ELSE IF q.currentQuality > 10
                    THEN /\ n.pc = "encode"
                         /\ n.currentQuality = q.currentQuality - 10
                         /\ n.currentWidth = q.currentWidth
                         /\ n.currentHeight = q.currentHeight
                    ELSE /\ n.currentQuality = 60
                         /\ n.currentWidth <= q.currentWidth
                         /\ n.currentHeight <= q.currentHeight
                         /\ 10 * n.currentWidth - 9 * q.currentWidth \in -4..5
                         /\ 10 * n.currentHeight - 9 * q.currentHeight \in -4..5
        /\ (q.ep = "upload-image" /\ q.pc \in {"write", "upload", "update", "rm"}) =>
             /\ n.bufLen = q.bufLen
             /\ n.bufQuality = q.bufQuality
             /\ n.bufWidth = q.bufWidth
             /\ n.bufHeight = q.bufHeight]_vars

\* the loop has stopped at a candidate of exactly 300 KB, found at quality
\* 50 after at least one shrink, and has gone on to the upload
C23_Witness ==
  /\ req[1].ep = "upload-image" /\ req[1].pc = "upload"
  /\ req[1].bufLen = MAX_SIZE_KB * 1024
  /\ req[1].bufQuality = 50
  /\ req[1].bufWidth < req[1].originalWidth
  /\ req[1].currentQuality = 50 /\ req[1].currentWidth = req[1].bufWidth

\* C24: given that the capture timer fires and the fetch completes or
\* fails, whenever the saving flag is true it eventually returns to false.
C24_SaveEventuallyResolves == isSaving ~> ~isSaving

\* a save has resolved in the catch because the Stage was gone when its
\* timer fired: another record is selected and its image has not loaded
C24_Witness ==
  /\ lastOp.op = "saveFailed"
  /\ image = Null /\ imageLoading
  /\ ~isSaving /\ InFlight = {}
  /\ toast = "error"

\* C25: the result of a save is applied whatever record is selected when it
\* arrives: the onload callback of the saved line image sets the displayed
\* saved-line image to the URL answered for the record the save was started
\* on and leaves the selection as it is.
C25_SaveResultAppliedAfterSwitch ==
  [][lastOp'.op = "lineImgOnload" =>
       \E s \in saves :
         /\ s.st = "lineImg"
         /\ saves' = saves \ {s}
         /\ s.url # NoUrl /\ s.url[4] = s.route
         /\ lineSavedImage' = s.url
         /\ selectedRoute' = selectedRoute]_vars

\* record r2 was selected while a save of r1 was in flight, its image has
\* loaded, and the saved-line image displayed is the URL answered for r1
C25_Witness ==
  /\ lastOp.op = "lineImgOnload"
  /\ selectedRoute = "r2" /\ image = "r2"
  /\ lineSavedImage # NoUrl /\ lineSavedImage[4] = "r1"

\* C26: finished and drawingMode can both be true: toggleDrawingMode called
\* with drawingMode false on a finished path turns drawingMode on and leaves
\* finished true and the committed path in place.
C26_EnterDrawingKeepsFinished ==
  [][(lastOp'.op = "toggleDrawingMode" /\ ~drawingMode /\ lineFinished) =>
       (drawingMode' /\ lineFinished' /\ lines' = lines)]_vars

\* through enabled controls only: an accepted finishLine, then enterDrawing;
\* finished and drawingMode are both true
C26_Witness ==
  /\ viaUI
  /\ lastOp.op = "toggleDrawingMode"
  /\ lineFinished /\ drawingMode
  /\ lines = <<committed>> /\ NumPoints(committed) >= 2

\* C27 as stated: a save request that carries the id of a record and the
\* original dimensions of that record's image (both taken when save was
\* clicked) carries a canvas snapshot showing the image of that same record,
\* also when the selected record has changed between the click and the
\* capture 100 ms later.
C27_RequestPairsIdWithOwnSnapshot ==
  \A s \in saves :
    (s.st = "fetch" /\ s.img = RouteImage(s.route)) => s.snap = RouteImage(s.route)

\* C28 as stated: whenever a base image is shown, it is the image of the
\* record that is selected (the callbacks of the image loads of records
\* selected earlier do not set it).
C28_ImageIsOfSelectedRecord ==
  image # Null => image = RouteImage(selectedRoute)

\* C29 as stated: a save is only started (through the save control) in a
\* state where drawingMode is false, the working buffer is empty and the
\* visible path is the finished path of at least 2 points, and the snapshot
\* of a save request shows no in-progress strokes or point markers.
C29_SaveOnlyOfFinishedPath ==
  /\ (lastOp.op = "saveLine" /\ InFlight # {}) =>
        /\ ~drawingMode
        /\ points = <<>>
        /\ lineFinished
        /\ lines = <<committed>>
        /\ NumPoints(committed) >= 2
  /\ \A s \in saves : s.st = "fetch" => ~s.strokes

====
